---- MODULE Spec2Model ----
(***************************************************************************)
(* Attempt Session Engine of Evaliq: the shared-quiz page (SharedQuiz.tsx, *)
(* the component with timer, retry gate and integrity monitor) and the     *)
(* computations of the creator attempt page (QuizAttempt).                 *)
(*                                                                         *)
(* The page is a React function component.  One render is one snapshot of  *)
(* the component state `st`; a callback created in a render reads the      *)
(* snapshot of that render (its closure), not the current state.  State    *)
(* updates made in one handler run are batched into one render (React 18), *)
(* and the effects of a render run with it.  Awaited network calls         *)
(* (quiz fetch, questions fetch, count query, insert) are suspension       *)
(* points: the continuation resumes in a later step.  A count query sees   *)
(* the rows stored when it is sent and its answer may arrive late; an      *)
(* insert is executed by the remote store in a step of its own.            *)
(* localStorage is synchronous.  Time is counted in whole seconds.         *)
(***************************************************************************)
EXTENDS Integers, Sequences, FiniteSets, TLC

VARIABLES
  now,            \* wall clock, Date.now() in seconds
  quiz,           \* the quizzes row behind the share token (remote)
  attempts,       \* rows of quiz_attempts (remote), as a count query sees them
  ls,             \* localStorage, the un-namespaced quiz_* keys
  st,             \* the component state (useState cells) of the current page
  loadPc,         \* position of the load() effect: "quiz", "questions", "done"
  checks,         \* count queries of checkAttempts in flight, with continuation
  inserts,        \* inserts of handleSubmit in flight, with continuation
  timeouts,       \* pending setTimeout(handleSubmit(true), 200) callbacks
  listener,       \* the installed visibilitychange listener (its closure)
  sessionRows,    \* rows stored for the session: the inserts sent since the
                  \* page load, Start or Retry that the remote store executed
  completed,      \* submissions of the participant completed so far: the
                  \* handleSubmit runs that reached their last statement
  shownBefore,    \* the remaining time the page showed when it was reloaded,
                  \* until the load under way has set the timer again
  leftObserved,   \* the retriesLeft the page showed after the last submission
                  \* that completed on a quiz with retries
  cIn,            \* inputs of one handleSubmit computation (pure check)
  cOut            \* its outputs

vars == <<now, quiz, attempts, ls, st, loadPc, checks, inserts, timeouts,
          listener, sessionRows, completed, shownBefore, leftObserved, cIn,
          cOut>>

sessionVars == <<now, quiz, attempts, ls, st, loadPc, checks, inserts,
                 timeouts, listener, sessionRows, completed, shownBefore,
                 leftObserved>>

computeVars == <<cIn, cOut>>

(***************************************************************************)
(* Bounds of the checked model.                                            *)
(***************************************************************************)
\* The wall clock stops advancing here.
MaxNow == 2
\* No insert request is sent once this many rows are stored, or this many
\* submissions are completed, counting the inserts under way.
MaxRecords == 2
\* At most this many count queries are in flight at once.
MaxPending == 2
\* The source counts 60 seconds to the minute (duration_minutes * 60); the
\* checked model shortens the minute so that a countdown is a few ticks.
SecondsPerMinute == 2
\* The persisted tab-switch counter is not incremented beyond this.
MaxTabSwitches == 2

(***************************************************************************)
(* Values: nullable cells, strings of digits, JSON text.                   *)
(***************************************************************************)
\* null / a value (number | null, string | null of getItem)
None == << >>
Some(v) == <<v>>
Val(o) == o[1]
IsSome(o) == o # None

Max(a, b) == IF a >= b THEN a ELSE b

Digits == <<"0", "1", "2", "3", "4", "5", "6", "7", "8", "9">>
DigitValue(ch) == CHOOSE d \in 0..9 : Digits[d + 1] = ch

RECURSIVE NatToString(_)
NatToString(n) ==
  IF n < 10 THEN <<Digits[n + 1]>>
  ELSE NatToString(n \div 10) \o <<Digits[(n % 10) + 1]>>

\* Number.prototype.toString() of an integer: the decimal digits, "-" first
NumberToString(n) ==
  IF n < 0 THEN <<"-">> \o NatToString(0 - n) ELSE NatToString(n)

RECURSIVE ParseNat(_)
ParseNat(s) ==
  IF Len(s) = 1 THEN DigitValue(s[1])
  ELSE ParseNat(SubSeq(s, 1, Len(s) - 1)) * 10 + DigitValue(s[Len(s)])

\* parseInt(s) / Number(s) of a decimal integer string
ParseNumber(s) ==
  IF s[1] = "-" THEN 0 - ParseNat(Tail(s)) ELSE ParseNat(s)

\* a string is truthy iff it is not empty; null is falsy
Truthy(o) == IsSome(o) /\ Len(Val(o)) > 0

\* String.prototype.trim(): the names of the model hold no inner blanks
Trim(name) == IF name = " " THEN "" ELSE name

(***************************************************************************)
(* The quiz: questions and settings.                                       *)
(***************************************************************************)
\* option indexes of a question (the builders create four options)
OptionIndexes == {0, 1}

\* a quiz of one question and a quiz of two (the bank)
OneQuestion == << [id |-> "q1", correct_option_index |-> 1] >>

BankQuestions ==
  << [id |-> "q1", correct_option_index |-> 1],
     [id |-> "q2", correct_option_index |-> 0] >>

\* the question of another quiz (ids are uuids: no id is shared by two quizzes)
OtherQuestions == << [id |-> "q3", correct_option_index |-> 0] >>

\* rows of the questions table for the quiz, ordered by order_num
QuizQuestions == quiz.questions

\* every question id that a stored answers map can hold, in key order
QuestionIdOrder == <<"q1", "q2", "q3">>

\* JSON.stringify(answers): the entries of the object, key by key
StringifyAnswers(a) ==
  LET keys == SelectSeq(QuestionIdOrder, LAMBDA id : id \in DOMAIN a)
  IN  [i \in 1..Len(keys) |-> <<keys[i], a[keys[i]]>>]

\* JSON.parse of such a text: the object with those entries
ParseAnswers(s) ==
  [id \in {s[i][1] : i \in DOMAIN s} |->
     s[CHOOSE i \in DOMAIN s : s[i][1] = id][2]]

\* JSON.stringify(qs) and JSON.parse of it, for the question snapshot
StringifyQuestions(qs) ==
  [i \in 1..Len(qs) |-> <<qs[i].id, qs[i].correct_option_index>>]

ParseQuestions(s) ==
  [i \in 1..Len(s) |-> [id |-> s[i][1], correct_option_index |-> s[i][2]]]

\* a slip: the initialiser useState({}) of the page that persists nothing
NoStoredAnswers(l) == ParseAnswers(<< >>)

\* JSON.parse(localStorage.getItem("quiz_answers") || "{}")
StoredAnswers(l) ==
  IF Truthy(l.quiz_answers) THEN ParseAnswers(Val(l.quiz_answers))
  ELSE ParseAnswers(<< >>)

\* JSON.parse(localStorage.getItem("quiz_questions") || "[]")
StoredQuestions(l) ==
  IF Truthy(l.quiz_questions) THEN ParseQuestions(Val(l.quiz_questions))
  ELSE ParseQuestions(<< >>)

\* Number(localStorage.getItem("quiz_tab_switches") || "0")
StoredTabSwitches(l) ==
  IF Truthy(l.quiz_tab_switches) THEN ParseNumber(Val(l.quiz_tab_switches))
  ELSE ParseNumber(<<"0">>)

(***************************************************************************)
(* The computations of handleSubmit.                                       *)
(***************************************************************************)
\* latestAnswers[q.id] === q.correct_option_index (undefined is never equal)
IsCorrect(q, ans) == q.id \in DOMAIN ans /\ ans[q.id] = q.correct_option_index

\* let correct = 0; latestQuestions.forEach(q => { if (...) correct++ })
RECURSIVE CountCorrect(_, _, _)
CountCorrect(qs, ans, i) ==
  IF i > Len(qs) THEN 0
  ELSE (IF IsCorrect(qs[i], ans) THEN 1 ELSE 0) + CountCorrect(qs, ans, i + 1)

\* a scoring slip: every answered question counts
ScoreAnswered(qs, ans) ==
  Cardinality({i \in 1..Len(qs) : qs[i].id \in DOMAIN ans})

Score(qs, ans) == CountCorrect(qs, ans, 1)

\* SharedQuiz: auto ? JSON.parse(localStorage quiz_answers || "{}") : answers
LatestAnswers(auto, answers, l) == IF auto THEN StoredAnswers(l) ELSE answers

\* SharedQuiz: questions.length > 0 ? questions : JSON.parse(quiz_questions || "[]")
LatestQuestions(questions, l) ==
  IF Len(questions) > 0 THEN questions ELSE StoredQuestions(l)

\* the time computation without its last statement
SharedRawTime(durationMinutes, l, t) ==
  IF IsSome(durationMinutes) /\ Val(durationMinutes) # 0 /\ Truthy(l.quiz_time_left)
  THEN Val(durationMinutes) * SecondsPerMinute - ParseNumber(Val(l.quiz_time_left))
  ELSE IF Truthy(l.quiz_start_time)
       THEN t - ParseNumber(Val(l.quiz_start_time))
       ELSE 0

\* a slip: the last statement is left out
SharedTimeUnclamped(durationMinutes, l, t) ==
  SharedRawTime(durationMinutes, l, t)

\* SharedQuiz.handleSubmit: timeTakenSeconds, ending in Math.max(.., 1)
SharedTimeTaken(durationMinutes, l, t) ==
  Max(SharedRawTime(durationMinutes, l, t), 1)

\* the creator page's time computation without its last statement
CreatorRawTime(durationMinutes, timeLeft, startTime, t) ==
  LET byTimer == IF IsSome(durationMinutes) /\ Val(durationMinutes) # 0
                    /\ IsSome(timeLeft)
                 THEN Val(durationMinutes) * SecondsPerMinute - Val(timeLeft)
                 ELSE 0
  IN  IF Truthy(startTime) THEN t - ParseNumber(Val(startTime)) ELSE byTimer

\* QuizAttempt.handleSubmit: timeTakenSeconds, ending in Math.max(.., 1)
CreatorTimeTaken(durationMinutes, timeLeft, startTime, t) ==
  Max(CreatorRawTime(durationMinutes, timeLeft, startTime, t), 1)

\* the row handed to insert(..) by QuizAttempt.handleSubmit at time t
CreatorRecord(questions, answers, durationMinutes, timeLeft, startTime, t) ==
  [participant_name |-> "Creator",
   answers |-> answers,
   score |-> Score(questions, answers),
   total_questions |-> Len(questions),
   time_taken_seconds |->
     CreatorTimeTaken(durationMinutes, timeLeft, startTime, t)]

(***************************************************************************)
(* The remote quiz row and the page's initial state.                       *)
(***************************************************************************)
\* names typed into the name field
Names == {"ann"}

QuizRow(found, sharing, retries, minutes, prevent, warnings) ==
  [found |-> found, sharing_enabled |-> sharing, max_retries |-> retries,
   duration_minutes |-> minutes, prevent_tab_switch |-> prevent,
   tab_switch_warnings |-> warnings, questions |-> OneQuestion]

\* The quizzes row found by share_token (found = FALSE: maybeSingle() gives
\* null).  max_retries 0: retries not enabled; duration_minutes None: untimed.
QuizRows ==
  { QuizRow(FALSE, FALSE, 0, None, FALSE, 3),
    QuizRow(TRUE, FALSE, 0, None, FALSE, 3),
    QuizRow(TRUE, TRUE, 0, None, FALSE, 3),
    QuizRow(TRUE, TRUE, 0, Some(1), TRUE, 1),
    QuizRow(TRUE, TRUE, 0, None, TRUE, 2),
    [QuizRow(TRUE, TRUE, 0, None, FALSE, 3) EXCEPT !.questions = BankQuestions],
    QuizRow(TRUE, TRUE, 1, None, TRUE, 2),
    QuizRow(TRUE, TRUE, 1, Some(1), FALSE, 3),
    QuizRow(TRUE, TRUE, 2, Some(1), FALSE, 3),
    QuizRow(TRUE, TRUE, 2, None, TRUE, 1) }

\* rows of quiz_attempts written for this quiz before the page is opened
\* (the same name was used in another browser)
EarlierRows == { << >>, << [participant_name |-> "ann"] >> }

\* an empty localStorage
EmptyStore ==
  [quiz_questions |-> None, quiz_answers |-> None, quiz_participant |-> None,
   quiz_started |-> None, quiz_time_left |-> None, quiz_tab_switches |-> None,
   quiz_start_time |-> None]

\* the useState initialisers, read from localStorage l
InitialState(l) ==
  [questions |-> StoredQuestions(l),
   answers |-> StoredAnswers(l),
   submitted |-> FALSE,
   score |-> 0,
   notFound |-> FALSE,
   participantName |-> IF Truthy(l.quiz_participant) THEN Val(l.quiz_participant) ELSE "",
   started |-> (l.quiz_started = Some("true")),
   durationMinutes |-> None,
   timeLeft |-> None,
   maxRetries |-> 0,
   attemptCount |-> 0,
   blocked |-> FALSE,
   preventTabSwitch |-> FALSE,
   tabWarnings |-> 3,
   quizId |-> ""]

\* const retriesLeft = Math.max(maxRetries - attemptCount, 0)
retriesLeft(s) == Max(s.maxRetries - s.attemptCount, 0)

\* what a handleSubmit created in the render of state s reads from its closure
Closure(s) == [blocked |-> s.blocked, questions |-> s.questions]

(***************************************************************************)
(* Effects: what a render does when the dependencies of an effect changed. *)
(***************************************************************************)
\* useEffect(.., [answers]): localStorage.setItem("quiz_answers", ..)
SaveAnswers(s, l) ==
  [l EXCEPT !.quiz_answers = Some(StringifyAnswers(s.answers))]

\* useEffect(.., [timeLeft]): persist the remaining time unless it is null
PersistTimeLeft(old, new, l) ==
  IF new.timeLeft # old.timeLeft /\ IsSome(new.timeLeft)
  THEN [l EXCEPT !.quiz_time_left = Some(NumberToString(Val(new.timeLeft)))]
  ELSE l

\* rows of quiz_attempts with this quiz_id and participant_name
CountFor(name) ==
  Cardinality({k \in 1..Len(attempts) : attempts[k].participant_name = name})

\* A count query of checkAttempts for name and maxRetries max, sent by a
\* caller whose closure holds blocked; cont is the caller that awaits it.
\* count is the { count } of the answer: a number, or null when the query fails
NewCheck(cont, name, max, blocked) ==
  [cont |-> cont, name |-> name, max |-> max, blocked |-> blocked,
   count |-> Some(CountFor(name))]

\* useEffect(.., [quizId, participantName, maxRetries]): checkAttempts()
CheckEffect(old, new, cs) ==
  IF <<old.quizId, old.participantName, old.maxRetries>>
       # <<new.quizId, new.participantName, new.maxRetries>>
     /\ new.quizId # "" /\ Trim(new.participantName) # "" /\ new.maxRetries > 0
  THEN Append(cs, NewCheck("effect", new.participantName, new.maxRetries,
                            new.blocked))
  ELSE cs

\* the timer effect's branch timeLeft <= 0: setTimeout(handleSubmit(true), 200)
TimerExpired(s) ==
  s.started /\ ~s.submitted /\ IsSome(s.timeLeft) /\ Val(s.timeLeft) <= 0

\* the timer effect's last branch: setInterval(.., 1000) is running
IntervalRunning(s) ==
  s.started /\ ~s.submitted /\ IsSome(s.timeLeft) /\ Val(s.timeLeft) > 0

\* useEffect(.., [timeLeft, submitted, started])
TimerEffect(old, new, ts) ==
  IF <<old.timeLeft, old.submitted, old.started>>
       # <<new.timeLeft, new.submitted, new.started>>
     /\ TimerExpired(new)
  THEN Append(ts, Closure(new))
  ELSE ts

\* a slip: the effect without its line "if (submitted) return"
ListenerKeptOnSubmit(old, new, cur) ==
  IF <<old.preventTabSwitch, old.tabWarnings, old.submitted, old.started>>
       # <<new.preventTabSwitch, new.tabWarnings, new.submitted, new.started>>
  THEN IF new.preventTabSwitch /\ new.started
       THEN Some(Closure(new)) ELSE None
  ELSE cur

\* useEffect(.., [preventTabSwitch, tabWarnings, submitted, started, toast])
ListenerEffect(old, new, cur) ==
  IF <<old.preventTabSwitch, old.tabWarnings, old.submitted, old.started>>
       # <<new.preventTabSwitch, new.tabWarnings, new.submitted, new.started>>
  THEN IF new.preventTabSwitch /\ ~new.submitted /\ new.started
       THEN Some(Closure(new)) ELSE None
  ELSE cur

\* One render: the new state is committed and its effects run.  l, cs, ts are
\* localStorage, the count queries and the timeouts as the handler left them.
Commit(new, l, cs, ts) ==
  /\ st' = new
  /\ ls' = PersistTimeLeft(st, new, l)
  /\ checks' = CheckEffect(st, new, cs)
  /\ Len(checks') <= MaxPending
  /\ timeouts' = TimerEffect(st, new, ts)
  /\ listener' = ListenerEffect(st, new, listener)

\* A page load: the component mounts with the state read from localStorage l;
\* the mount runs the save-answers effect and starts load().  The callbacks of
\* the page before are gone and its requests under way are aborted: an insert
\* is stored only if the remote store executed it before the unload.
Mount(l) ==
  /\ st' = InitialState(l)
  /\ ls' = SaveAnswers(InitialState(l), l)
  /\ loadPc' = "quiz"
  /\ checks' = << >>
  /\ timeouts' = << >>
  /\ listener' = None
  /\ inserts' = << >>
  /\ sessionRows' = 0

Init ==
  /\ now = 0
  /\ quiz \in QuizRows
  /\ attempts \in EarlierRows
  /\ ls = SaveAnswers(InitialState(EmptyStore), EmptyStore)
  /\ st = InitialState(EmptyStore)
  /\ loadPc = "quiz"
  /\ checks = << >>
  /\ inserts = << >>
  /\ timeouts = << >>
  /\ listener = None
  /\ sessionRows = 0
  /\ completed = Len(attempts)
  /\ shownBefore = None
  /\ leftObserved = None
  /\ cIn = None
  /\ cOut = None

(***************************************************************************)
(* load(): the quiz row, then the questions.                               *)
(***************************************************************************)
RemoveAt(seq, i) == SubSeq(seq, 1, i - 1) \o SubSeq(seq, i + 1, Len(seq))

\* the state after "Save settings" and the timer restore of load()
LoadedState(s, l) ==
  LET d == quiz.duration_minutes
      timed == IsSome(d) /\ Val(d) # 0
  IN  [s EXCEPT !.preventTabSwitch = quiz.prevent_tab_switch,
                !.tabWarnings = quiz.tab_switch_warnings,
                !.quizId = "quiz",
                !.maxRetries = quiz.max_retries,
                !.durationMinutes = IF timed THEN d ELSE @,
                !.timeLeft = IF ~timed THEN @
                             ELSE IF Truthy(l.quiz_time_left)
                                  THEN Some(ParseNumber(Val(l.quiz_time_left)))
                                  ELSE Some(Val(d) * SecondsPerMinute)]

\* the quizzes query of load() returns
LoadQuiz ==
  /\ loadPc = "quiz"
  /\ IF ~quiz.found \/ ~quiz.sharing_enabled
     THEN /\ loadPc' = "done"
          /\ Commit([st EXCEPT !.notFound = TRUE], ls, checks, timeouts)
     ELSE /\ loadPc' = "questions"
          /\ Commit(LoadedState(st, ls), ls, checks, timeouts)
  /\ shownBefore' = None
  /\ UNCHANGED <<now, quiz, attempts, inserts, sessionRows, completed, cIn,
                 cOut, leftObserved>>

\* the questions query of load() returns
LoadQuestions ==
  /\ loadPc = "questions"
  /\ loadPc' = "done"
  /\ Commit([st EXCEPT !.questions = QuizQuestions],
            [ls EXCEPT !.quiz_questions = Some(StringifyQuestions(QuizQuestions))],
            checks, timeouts)
  /\ UNCHANGED <<now, quiz, attempts, inserts, sessionRows, completed, cIn,
                 cOut, leftObserved, shownBefore>>

(***************************************************************************)
(* The name entry gate.                                                    *)
(***************************************************************************)
\* the gate is what the component renders
GateShown == ~st.notFound /\ ~st.started

\* the quiz view is what the component renders
QuizShown == ~st.notFound /\ st.started

\* onChange of the name field: a name is entered into the empty field
TypeName(n) ==
  /\ GateShown
  /\ st.participantName = ""
  /\ n # ""
  /\ Commit([st EXCEPT !.participantName = n], ls, checks, timeouts)
  /\ UNCHANGED <<now, quiz, attempts, loadPc, inserts, sessionRows,
                 completed, cIn, cOut, leftObserved, shownBefore>>

\* Start Quiz onClick after "await checkAttempts()": blocked is the click's
\* closure value
StartSession(blockedAtClick, s, l) ==
  IF ~blockedAtClick
  THEN [s |-> [s EXCEPT !.started = TRUE],
        l |-> [l EXCEPT !.quiz_started = Some("true"),
                        !.quiz_start_time = Some(NumberToString(now))]]
  ELSE [s |-> s, l |-> l]

\* Start Quiz onClick, up to the count query of checkAttempts
ClickStart ==
  /\ GateShown
  /\ Trim(st.participantName) # ""
  /\ ~st.blocked
  /\ LET l1 == [ls EXCEPT !.quiz_participant = Some(st.participantName),
                          !.quiz_tab_switches = Some(<<"0">>)]
     IN  IF st.maxRetries = 0
         THEN LET r == StartSession(st.blocked, st, l1)
              IN  /\ Commit(r.s, r.l, checks, timeouts)
                  /\ sessionRows' = 0
         ELSE /\ Commit(st, l1, Append(checks, NewCheck("start", st.participantName,
                                             st.maxRetries, st.blocked)), timeouts)
              /\ UNCHANGED sessionRows
  /\ UNCHANGED <<now, quiz, attempts, loadPc, inserts, completed, cIn, cOut, leftObserved, shownBefore>>

(***************************************************************************)
(* checkAttempts: the count query and its continuations.                   *)
(***************************************************************************)
\* a slip: a failed query counted as one attempt
CountOrOne(count) == IF IsSome(count) THEN Val(count) ELSE 1

\* const attempts = count || 0
CountOrZero(count) == IF IsSome(count) THEN Val(count) ELSE 0

\* setAttemptCount(attempts); setBlocked(attempts >= maxRetries)
CheckedState(s, c) ==
  LET counted == CountOrZero(c.count)
  IN  [s EXCEPT !.attemptCount = counted, !.blocked = (counted >= c.max)]

\* checkAttempts() called by the effect returns
EffectCheckReturn(i) ==
  /\ checks[i].cont = "effect"
  /\ Commit(CheckedState(st, checks[i]), ls, RemoveAt(checks, i), timeouts)
  /\ UNCHANGED <<now, quiz, attempts, loadPc, inserts, sessionRows,
                 completed, cIn, cOut, leftObserved, shownBefore>>

\* checkAttempts() awaited by Start Quiz returns and the handler goes on
StartCheckReturn(i) ==
  /\ checks[i].cont = "start"
  /\ LET r == StartSession(checks[i].blocked, CheckedState(st, checks[i]), ls)
     IN  /\ Commit(r.s, r.l, RemoveAt(checks, i), timeouts)
         /\ sessionRows' = IF r.s.started /\ ~st.started THEN 0 ELSE sessionRows
  /\ UNCHANGED <<now, quiz, attempts, loadPc, inserts, completed, cIn, cOut, leftObserved, shownBefore>>

(***************************************************************************)
(* Answers, timer, page reload.                                            *)
(***************************************************************************)
\* a slip: the earlier entries are not spread into the new object
ReplacedAnswers(a, q, o) == [id \in {q} |-> o]

\* const updated = { ...prev, [questionId]: optionIndex }
UpdatedAnswers(a, q, o) ==
  [id \in DOMAIN a \cup {q} |-> IF id = q THEN o ELSE a[id]]

\* selectAnswer(questionId, optionIndex)
SelectAnswer(q, o) ==
  /\ QuizShown
  /\ \E i \in 1..Len(st.questions) : st.questions[i].id = q
  /\ IF st.submitted
     THEN Commit(st, ls, checks, timeouts)
     ELSE LET updated == UpdatedAnswers(st.answers, q, o)
              new == [st EXCEPT !.answers = updated]
          IN  Commit(new, SaveAnswers(new, ls), checks, timeouts)
  /\ UNCHANGED <<now, quiz, attempts, loadPc, inserts, sessionRows,
                 completed, cIn, cOut, leftObserved, shownBefore>>

\* the interval callback after one second: setTimeLeft(prev => prev - 1)
Tick ==
  /\ IntervalRunning(st)
  /\ now < MaxNow
  /\ now' = now + 1
  /\ Commit([st EXCEPT !.timeLeft = Some(Val(@) - 1)], ls, checks, timeouts)
  /\ UNCHANGED <<quiz, attempts, loadPc, inserts, sessionRows, completed,
                 cIn, cOut, leftObserved, shownBefore>>

\* a second passes without a timer callback (throttled tab, page loading)
Elapse ==
  /\ now < MaxNow
  /\ now' = now + 1
  /\ UNCHANGED <<quiz, attempts, ls, st, loadPc, checks, inserts, timeouts,
                 listener, sessionRows, completed, cIn, cOut, leftObserved, shownBefore>>

\* the timer of the header: shown in the quiz view of a timed quiz
TimeShown(s) ==
  s.started /\ ~s.notFound /\ ~s.submitted /\ IsSome(s.durationMinutes)
  /\ IsSome(s.timeLeft)

\* the user reloads the page
Reload ==
  /\ Mount(ls)
  /\ shownBefore' =
       IF TimeShown(st) /\ \A i \in 1..Len(checks) : checks[i].cont # "retry"
       THEN st.timeLeft
       ELSE IF st.started /\ ~st.submitted /\ loadPc = "quiz"
            THEN shownBefore ELSE None
  /\ UNCHANGED <<now, quiz, attempts, completed, cIn, cOut, leftObserved>>

(***************************************************************************)
(* handleSubmit.                                                           *)
(***************************************************************************)
\* the two early returns: blocked (closure), or a manual submit with
\* Object.keys(answers).length < questions.length
SubmitRefused(auto, c, s) ==
  c.blocked \/ (~auto /\ Cardinality(DOMAIN s.answers) < Len(c.questions))

\* the row handed to supabase.from("quiz_attempts").insert(..) at time t
SubmitRecord(auto, c, s, l, t) ==
  LET latestAnswers == LatestAnswers(auto, s.answers, l)
      latestQuestions == LatestQuestions(c.questions, l)
  IN  [participant_name |-> s.participantName,
       answers |-> latestAnswers,
       score |-> Score(latestQuestions, latestAnswers),
       total_questions |-> Len(latestQuestions),
       time_taken_seconds |-> SharedTimeTaken(s.durationMinutes, l, t),
       tab_switch_count |-> StoredTabSwitches(l)]

\* handleSubmit(auto) of the render with closure c, up to "await insert";
\* l and ts are localStorage and the timeouts as the caller left them
HandleSubmit(auto, c, l, ts) ==
  IF SubmitRefused(auto, c, st)
  THEN /\ Commit(st, l, checks, ts)
       /\ UNCHANGED inserts
  ELSE /\ Max(Len(attempts), completed) + Len(inserts) < MaxRecords
       /\ LET rec == SubmitRecord(auto, c, st, l, now)
          IN  /\ Commit([st EXCEPT !.score = rec.score, !.submitted = TRUE],
                        l, checks, ts)
              /\ inserts' = Append(inserts,
                               [rec |-> rec, phase |-> "sent",
                                max |-> st.maxRetries,
                                valid |-> (st.quizId # ""),
                                session |-> TRUE])

\* the Submit Answers button: onClick={() => handleSubmit(false)}
ManualSubmit ==
  /\ QuizShown
  /\ ~st.submitted
  /\ Len(st.questions) > 0
  /\ ~st.blocked
  /\ HandleSubmit(FALSE, Closure(st), ls, timeouts)
  /\ UNCHANGED <<now, quiz, attempts, loadPc, sessionRows, completed, cIn,
                 cOut, leftObserved, shownBefore>>

\* the callback of setTimeout(() => handleSubmit(true), 200) runs
TimeoutFire(i) ==
  /\ HandleSubmit(TRUE, timeouts[i], ls, RemoveAt(timeouts, i))
  /\ UNCHANGED <<now, quiz, attempts, loadPc, sessionRows, completed, cIn,
                 cOut, leftObserved, shownBefore>>

\* incrementTabSwitch(): the counter is read from and written to localStorage
incrementTabSwitch(l) ==
  [l EXCEPT !.quiz_tab_switches = Some(NumberToString(StoredTabSwitches(l) + 1))]

\* a slip: the threshold test written with >
ThresholdPassed(next, warnings) == next > warnings

\* if (next >= tabWarnings)
ThresholdReached(next, warnings) == next >= warnings

\* handleVisibilityChange with document.hidden
Hidden ==
  /\ IsSome(listener)
  /\ StoredTabSwitches(ls) < MaxTabSwitches
  /\ LET l1 == incrementTabSwitch(ls)
     IN  IF ThresholdReached(StoredTabSwitches(l1), st.tabWarnings)
         THEN HandleSubmit(TRUE, Val(listener), l1, timeouts)
         ELSE /\ Commit(st, l1, checks, timeouts)
              /\ UNCHANGED inserts
  /\ UNCHANGED <<now, quiz, attempts, loadPc, sessionRows, completed, cIn,
                 cOut, leftObserved, shownBefore>>

\* A stored row of quiz_attempts.  The pages modelled here read the table only
\* through the count query filtered by quiz_id and participant_name; the
\* other columns of a row are those of the insert request that wrote it.
StoredRow(rec) == [participant_name |-> rec.participant_name]

\* the remote store executes an insert; a row without quiz_id is rejected
InsertServe(i) ==
  /\ inserts[i].phase = "sent"
  /\ attempts' = IF inserts[i].valid
                 THEN Append(attempts, StoredRow(inserts[i].rec))
                 ELSE attempts
  /\ inserts' = [inserts EXCEPT ![i].phase =
                   IF inserts[i].valid THEN "stored" ELSE "failed"]
  /\ sessionRows' = IF inserts[i].valid /\ inserts[i].session
                    THEN sessionRows + 1 ELSE sessionRows
  /\ UNCHANGED <<now, quiz, ls, st, loadPc, checks, timeouts, listener,
                 completed, cIn, cOut, leftObserved, shownBefore>>

\* the insert fails (network, remote store): no row is written and the
\* awaited call resolves with an error, which handleSubmit does not read
InsertFail(i) ==
  /\ inserts[i].phase = "sent"
  /\ inserts' = [inserts EXCEPT ![i].phase = "failed"]
  /\ UNCHANGED <<now, quiz, attempts, ls, st, loadPc, checks, timeouts,
                 listener, sessionRows, completed, cIn, cOut, leftObserved, shownBefore>>

\* a slip: only the answers are removed
ClearAnswersOnly(l) == [l EXCEPT !.quiz_answers = None]

\* "Clear stored progress after submission"
ClearAfterSubmit(l) ==
  [l EXCEPT !.quiz_answers = None, !.quiz_start_time = None,
            !.quiz_time_left = None, !.quiz_questions = None,
            !.quiz_tab_switches = None]

\* "await insert" returns: handleSubmit calls checkAttempts(), which returns
\* at once when maxRetries === 0 and sends the count query otherwise
InsertAck(i) ==
  /\ inserts[i].phase # "sent"
  /\ inserts' = RemoveAt(inserts, i)
  /\ IF inserts[i].max = 0
     THEN /\ ls' = ClearAfterSubmit(ls)
          /\ completed' = completed + 1
          /\ UNCHANGED checks
     ELSE /\ checks' = Append(checks,
                         NewCheck("submit", inserts[i].rec.participant_name,
                                  inserts[i].max, FALSE))
          /\ Len(checks') <= MaxPending
          /\ UNCHANGED <<ls, completed>>
  /\ UNCHANGED <<now, quiz, attempts, st, loadPc, timeouts, listener,
                 sessionRows, cIn, cOut, leftObserved, shownBefore>>

\* checkAttempts() awaited by handleSubmit returns; the stored progress is cleared
SubmitCheckReturn(i) ==
  /\ checks[i].cont = "submit"
  /\ Commit(CheckedState(st, checks[i]), ClearAfterSubmit(ls),
            RemoveAt(checks, i), timeouts)
  /\ completed' = completed + 1
  /\ leftObserved' = Some(retriesLeft(st'))
  /\ UNCHANGED <<now, quiz, attempts, loadPc, inserts, sessionRows, cIn,
                 cOut, shownBefore>>

(***************************************************************************)
(* handleRetry.                                                            *)
(***************************************************************************)
\* Retry Quiz onClick, up to the count query of checkAttempts
ClickRetry ==
  /\ QuizShown
  /\ st.submitted
  /\ st.maxRetries > 0
  /\ ~st.blocked
  /\ IF st.maxRetries > 0 /\ st.attemptCount >= st.maxRetries
     THEN /\ Commit([st EXCEPT !.blocked = TRUE], ls, checks, timeouts)
          /\ UNCHANGED <<inserts, sessionRows>>
     ELSE LET new == [st EXCEPT !.answers = ParseAnswers(<< >>),
                                !.submitted = FALSE, !.score = 0]
          IN  /\ Commit(new, SaveAnswers(new, ls),
                        Append(checks, NewCheck("retry", st.participantName,
                                                st.maxRetries, st.blocked)),
                        timeouts)
              /\ inserts' = [k \in 1..Len(inserts) |->
                               [inserts[k] EXCEPT !.session = FALSE]]
              /\ sessionRows' = 0
  /\ UNCHANGED <<now, quiz, attempts, loadPc, completed, cIn, cOut, leftObserved, shownBefore>>

\* handleRetry after "await checkAttempts()": keys removed, fresh timer saved
RetryStore(s, l) ==
  LET l1 == [l EXCEPT !.quiz_answers = None, !.quiz_time_left = None,
                      !.quiz_start_time = None, !.quiz_questions = None]
  IN  IF IsSome(s.durationMinutes) /\ Val(s.durationMinutes) # 0
      THEN [l1 EXCEPT !.quiz_time_left =
              Some(NumberToString(Val(s.durationMinutes) * SecondsPerMinute))]
      ELSE l1

\* checkAttempts() awaited by handleRetry returns; window.location.reload()
RetryCheckReturn(i) ==
  /\ checks[i].cont = "retry"
  /\ Mount(RetryStore(st, ls))
  /\ shownBefore' = None
  /\ UNCHANGED <<now, quiz, attempts, completed, cIn, cOut, leftObserved>>

(***************************************************************************)
(* The specification of a shared-quiz session.                             *)
(***************************************************************************)
Next ==
  \/ LoadQuiz
  \/ LoadQuestions
  \/ \E n \in Names : TypeName(n)
  \/ ClickStart
  \/ \E i \in 1..Len(checks) : EffectCheckReturn(i)
  \/ \E i \in 1..Len(checks) : StartCheckReturn(i)
  \/ \E i \in 1..Len(checks) : SubmitCheckReturn(i)
  \/ \E i \in 1..Len(checks) : RetryCheckReturn(i)
  \/ \E q \in {QuizQuestions[k].id : k \in 1..Len(QuizQuestions)},
        o \in OptionIndexes : SelectAnswer(q, o)
  \/ Tick
  \/ Elapse
  \/ Reload
  \/ ManualSubmit
  \/ \E i \in 1..Len(timeouts) : TimeoutFire(i)
  \/ Hidden
  \/ \E i \in 1..Len(inserts) : InsertServe(i)
  \/ \E i \in 1..Len(inserts) : InsertAck(i)
  \/ ClickRetry

Spec == Init /\ [][Next]_vars

(***************************************************************************)
(* The sessions of the quizzes without retries (max_retries = 0): no count *)
(* query is ever sent and Retry Quiz is never shown, so the steps of such  *)
(* a session are the steps of Next below.                                  *)
(***************************************************************************)
InitOneShot == Init /\ quiz.max_retries = 0

NextOneShot ==
  \/ LoadQuiz
  \/ LoadQuestions
  \/ \E n \in Names : TypeName(n)
  \/ ClickStart
  \/ \E q \in {QuizQuestions[k].id : k \in 1..Len(QuizQuestions)},
        o \in OptionIndexes : SelectAnswer(q, o)
  \/ Tick
  \/ Elapse
  \/ Reload
  \/ ManualSubmit
  \/ \E i \in 1..Len(timeouts) : TimeoutFire(i)
  \/ Hidden
  \/ \E i \in 1..Len(inserts) : InsertServe(i)
  \/ \E i \in 1..Len(inserts) : InsertAck(i)

SpecOneShot == InitOneShot /\ [][NextOneShot]_vars

(***************************************************************************)
(* The same sessions when an insert may fail.                              *)
(***************************************************************************)
NextFailedInsert ==
  \/ NextOneShot
  \/ \E i \in 1..Len(inserts) : InsertFail(i)

SpecFailedInsert == InitOneShot /\ [][NextFailedInsert]_vars

(***************************************************************************)
(* Two quizzes in one browser: while localStorage holds what a session of  *)
(* a first quiz left there, the share link of another quiz is opened.      *)
(***************************************************************************)
\* the quizzes row found by the other share token
OtherQuizRows ==
  { [QuizRow(TRUE, TRUE, 0, Some(1), TRUE, 2) EXCEPT !.questions = OtherQuestions] }

\* the page is loaded for the share token of row: the component mounts on
\* the localStorage of the browser and load() will fetch that quiz
OpenShareLink(row) ==
  /\ quiz \notin OtherQuizRows
  /\ quiz' = row
  /\ Mount(ls)
  /\ shownBefore' = None
  /\ UNCHANGED <<now, attempts, completed, cIn, cOut, leftObserved>>

NextOtherQuiz ==
  \/ LoadQuiz
  \/ LoadQuestions
  \/ \E n \in Names : TypeName(n)
  \/ ClickStart
  \/ \E q \in {QuestionIdOrder[k] : k \in 1..Len(QuestionIdOrder)},
        o \in OptionIndexes : SelectAnswer(q, o)
  \/ Tick
  \/ Elapse
  \/ Reload
  \/ ManualSubmit
  \/ \E i \in 1..Len(timeouts) : TimeoutFire(i)
  \/ Hidden
  \/ \E i \in 1..Len(inserts) : InsertServe(i)
  \/ \E i \in 1..Len(inserts) : InsertAck(i)
  \/ \E row \in OtherQuizRows : OpenShareLink(row)

SpecOtherQuiz == InitOneShot /\ [][NextOtherQuiz]_vars

(***************************************************************************)
(* The creator's attempt page (QuizAttempt), in its two versions: the page *)
(* of src/pages/QuizAttempt.tsx keeps its progress in memory only; the     *)
(* page of part_003 persists it under the creator_* keys.  The page state  *)
(* is held in st, its localStorage keys in ls, its load() in loadPc.       *)
(***************************************************************************)
CreatorEmptyStore ==
  [creator_questions |-> None, creator_answers |-> None,
   creator_time_left |-> None, creator_quiz_start_time |-> None]

\* JSON.parse(localStorage.getItem("creator_questions") || "[]")
CreatorStoredQuestions(l) ==
  IF Truthy(l.creator_questions) THEN ParseQuestions(Val(l.creator_questions))
  ELSE ParseQuestions(<< >>)

\* JSON.parse(localStorage.getItem("creator_answers") || "{}")
CreatorStoredAnswers(l) ==
  IF Truthy(l.creator_answers) THEN ParseAnswers(Val(l.creator_answers))
  ELSE ParseAnswers(<< >>)

\* the useState initialisers; persists tells the version of the page
CreatorInitialState(persists, l) ==
  [persists |-> persists,
   questions |-> IF persists THEN CreatorStoredQuestions(l) ELSE << >>,
   answers |-> IF persists THEN CreatorStoredAnswers(l) ELSE ParseAnswers(<< >>),
   submitted |-> FALSE,
   score |-> 0,
   loading |-> TRUE,
   durationMinutes |-> None,
   timeLeft |-> IF persists /\ Truthy(l.creator_time_left)
                THEN Some(ParseNumber(Val(l.creator_time_left))) ELSE None,
   openSubmitDialog |-> FALSE]

\* the page is the creator's attempt page
CreatorPage == loadPc \in {"creator", "creator_done"}

\* useEffect(.., [answers]) of part_003: setItem("creator_answers", ..)
CreatorSaveAnswers(s, l) ==
  IF s.persists
  THEN [l EXCEPT !.creator_answers = Some(StringifyAnswers(s.answers))]
  ELSE l

\* useEffect(.., [timeLeft]) of part_003: setItem("creator_time_left", ..)
CreatorPersistTimeLeft(s, l) ==
  IF s.persists /\ IsSome(s.timeLeft)
  THEN [l EXCEPT !.creator_time_left = Some(NumberToString(Val(s.timeLeft)))]
  ELSE l

\* the timer effect's branch timeLeft <= 0; QuizAttempt.tsx returns before it
\* when timeLeft is 0 (if (!timeLeft) return)
CreatorExpired(s) ==
  /\ IsSome(s.timeLeft) /\ ~s.submitted /\ Val(s.timeLeft) <= 0
  /\ (s.persists \/ Val(s.timeLeft) # 0)

\* the timer effect's last branch: setInterval(.., 1000) is running
CreatorIntervalRunning(s) ==
  IsSome(s.timeLeft) /\ ~s.submitted /\ Val(s.timeLeft) > 0

\* the timer of the header
CreatorTimeShown(s) ==
  /\ ~s.loading /\ ~s.submitted
  /\ IsSome(s.durationMinutes) /\ IsSome(s.timeLeft)

\* QuizAttempt.tsx: if (!auto && Object.keys(answers).length < questions.length)
CreatorSubmitRefused(auto, s) ==
  ~s.persists /\ ~auto /\ Cardinality(DOMAIN s.answers) < Len(s.questions)

\* the row handed to insert(..) by the handleSubmit of the render of state s
CreatorInsert(s, l, t) ==
  [rec |-> IF s.persists
           THEN CreatorRecord(s.questions, s.answers, s.durationMinutes,
                              s.timeLeft, l.creator_quiz_start_time, t)
           ELSE [participant_name |-> "Creator", answers |-> s.answers,
                 score |-> Score(s.questions, s.answers),
                 total_questions |-> Len(s.questions)],
   phase |-> "sent", max |-> 0, valid |-> TRUE, session |-> FALSE]

\* the state after the synchronous part of handleSubmit
CreatorSubmitted(s) ==
  [s EXCEPT !.score = Score(s.questions, s.answers), !.submitted = TRUE]

\* One render of the creator page: the new state is committed, its effects
\* run (the persist effect when timeLeft changed), and the timer effect calls
\* handleSubmit(true) when the time is up.
\* timerDeps tells whether timeLeft or submitted changed (TRUE on mount).
CreatorCommit(new, l, timerDeps) ==
  LET l1 == IF new.timeLeft # st.timeLeft THEN CreatorPersistTimeLeft(new, l)
            ELSE l
      auto == timerDeps /\ CreatorExpired(new)
  IN  /\ st' = IF auto THEN CreatorSubmitted(new) ELSE new
      /\ ls' = l1
      /\ inserts' = IF auto THEN Append(inserts, CreatorInsert(new, l1, now))
                    ELSE inserts
      /\ auto => Len(attempts) + Len(inserts) < MaxRecords

\* a page load of the creator page
CreatorMount(persists, l) ==
  LET s == CreatorInitialState(persists, l)
      l1 == CreatorPersistTimeLeft(s, CreatorSaveAnswers(s, l))
      auto == CreatorExpired(s)
  IN  /\ st' = IF auto THEN CreatorSubmitted(s) ELSE s
      /\ ls' = l1
      /\ inserts' = IF auto THEN << CreatorInsert(s, l1, now) >> ELSE << >>
      /\ auto => Len(attempts) < MaxRecords
      /\ loadPc' = "creator"

\* the creator's quiz: two questions, untimed or of one minute
CreatorQuizRows ==
  { [QuizRow(TRUE, FALSE, 0, d, FALSE, 3) EXCEPT !.questions = BankQuestions] :
      d \in {None, Some(1)} }

InitCreator ==
  /\ now = 0
  /\ quiz \in CreatorQuizRows
  /\ attempts = << >>
  /\ \E persists \in BOOLEAN :
       LET s == CreatorInitialState(persists, CreatorEmptyStore)
       IN  /\ st = s
           /\ ls = CreatorSaveAnswers(s, CreatorEmptyStore)
  /\ loadPc = "creator"
  /\ checks = << >>
  /\ inserts = << >>
  /\ timeouts = << >>
  /\ listener = None
  /\ sessionRows = 0
  /\ completed = 0
  /\ shownBefore = None
  /\ leftObserved = None
  /\ cIn = None
  /\ cOut = None

\* load(): the quiz row and the questions have arrived
CreatorLoad ==
  /\ loadPc = "creator"
  /\ loadPc' = "creator_done"
  /\ LET d == quiz.duration_minutes
         timed == IsSome(d) /\ Val(d) # 0
         fresh == Some(Val(d) * SecondsPerMinute)
         new == [st EXCEPT
                   !.durationMinutes = IF timed THEN d ELSE @,
                   !.timeLeft = IF ~timed THEN @
                                ELSE IF st.persists /\ Truthy(ls.creator_time_left)
                                     THEN Some(ParseNumber(Val(ls.creator_time_left)))
                                     ELSE fresh,
                   !.questions = QuizQuestions,
                   !.loading = FALSE]
         l1 == IF st.persists
               THEN [ls EXCEPT !.creator_quiz_start_time = Some(NumberToString(now)),
                               !.creator_questions =
                                  Some(StringifyQuestions(QuizQuestions))]
               ELSE ls
     IN  CreatorCommit(new, l1, new.timeLeft # st.timeLeft)
  /\ shownBefore' = None
  /\ UNCHANGED <<now, quiz, attempts, checks, timeouts, listener, sessionRows,
                 completed, cIn, cOut, leftObserved>>

\* the interval callback after one second
CreatorTick ==
  /\ CreatorPage
  /\ CreatorIntervalRunning(st)
  /\ now < MaxNow
  /\ now' = now + 1
  /\ CreatorCommit([st EXCEPT !.timeLeft = Some(Val(@) - 1)], ls, TRUE)
  /\ UNCHANGED <<quiz, attempts, loadPc, checks, timeouts, listener,
                 sessionRows, completed, shownBefore, cIn, cOut, leftObserved>>

\* selectAnswer(questionId, optionIndex) of the creator page
CreatorSelectAnswer(q, o) ==
  /\ CreatorPage
  /\ ~st.loading
  /\ \E i \in 1..Len(st.questions) : st.questions[i].id = q
  /\ IF st.submitted
     THEN CreatorCommit(st, ls, FALSE)
     ELSE LET new == [st EXCEPT !.answers = UpdatedAnswers(st.answers, q, o)]
          IN  CreatorCommit(new, CreatorSaveAnswers(new, ls), FALSE)
  /\ UNCHANGED <<now, quiz, attempts, loadPc, checks, timeouts, listener,
                 sessionRows, completed, shownBefore, cIn, cOut, leftObserved>>

\* handleSubmit(false) of the current render
CreatorHandleSubmit(s) ==
  IF CreatorSubmitRefused(FALSE, s)
  THEN /\ CreatorCommit(s, ls, FALSE)
  ELSE /\ Len(attempts) + Len(inserts) < MaxRecords
       /\ st' = CreatorSubmitted(s)
       /\ ls' = ls
       /\ inserts' = Append(inserts, CreatorInsert(s, ls, now))

\* the Submit button: handleSubmit(false) in QuizAttempt.tsx, handleSubmitClick
\* in part_003 (the dialog opens when questions are unanswered)
CreatorSubmitClick ==
  /\ CreatorPage
  /\ ~st.loading /\ ~st.submitted /\ Len(st.questions) > 0
  /\ IF st.persists /\ Len(st.questions) - Cardinality(DOMAIN st.answers) > 0
     THEN CreatorCommit([st EXCEPT !.openSubmitDialog = TRUE], ls, FALSE)
     ELSE CreatorHandleSubmit(st)
  /\ UNCHANGED <<now, quiz, attempts, loadPc, checks, timeouts, listener,
                 sessionRows, completed, shownBefore, cIn, cOut, leftObserved>>

\* "Yes, Submit" of the dialog
CreatorConfirmSubmit ==
  /\ CreatorPage
  /\ st.openSubmitDialog /\ ~st.submitted
  /\ CreatorHandleSubmit([st EXCEPT !.openSubmitDialog = FALSE])
  /\ UNCHANGED <<now, quiz, attempts, loadPc, checks, timeouts, listener,
                 sessionRows, completed, shownBefore, cIn, cOut, leftObserved>>

\* "await insert" of the creator page returns; part_003 removes its keys
CreatorInsertAck(i) ==
  /\ CreatorPage
  /\ inserts[i].phase # "sent"
  /\ inserts' = RemoveAt(inserts, i)
  /\ ls' = IF st.persists THEN CreatorEmptyStore ELSE ls
  /\ completed' = completed + 1
  /\ UNCHANGED <<now, quiz, attempts, st, loadPc, checks, timeouts, listener,
                 sessionRows, shownBefore, cIn, cOut, leftObserved>>

\* the creator reloads the page
CreatorReload ==
  /\ CreatorPage
  /\ CreatorMount(st.persists, ls)
  /\ shownBefore' =
       IF CreatorTimeShown(st) THEN st.timeLeft
       ELSE IF st.loading /\ ~st.submitted THEN shownBefore ELSE None
  /\ UNCHANGED <<now, quiz, attempts, checks, timeouts, listener, sessionRows,
                 completed, cIn, cOut, leftObserved>>

NextCreator ==
  \/ CreatorLoad
  \/ CreatorTick
  \/ Elapse
  \/ \E q \in {QuizQuestions[k].id : k \in 1..Len(QuizQuestions)},
        o \in OptionIndexes : CreatorSelectAnswer(q, o)
  \/ CreatorSubmitClick
  \/ CreatorConfirmSubmit
  \/ \E i \in 1..Len(inserts) : InsertServe(i)
  \/ \E i \in 1..Len(inserts) : CreatorInsertAck(i)
  \/ CreatorReload

SpecCreator == InitCreator /\ [][NextCreator]_vars

(***************************************************************************)
(* The computations of handleSubmit on their own: one run of the shared    *)
(* page's and of the creator page's handleSubmit from chosen inputs.       *)
(***************************************************************************)
\* what an answers object can hold for a question: an option index, or a
\* number that is no option index
AnswerValues == OptionIndexes \cup {4}

\* the answers objects over the questions of the bank
AnswerMaps ==
  UNION {[ids -> AnswerValues] : ids \in SUBSET {"q1", "q2"}}

\* a nullable number among ns
Nullable(ns) == {None} \cup {Some(n) : n \in ns}

\* a number | null as the string | null that localStorage holds for it
StoredNumber(o) == IF IsSome(o) THEN Some(NumberToString(Val(o))) ELSE None

ComputeInputs ==
  [auto : BOOLEAN,
   answers : AnswerMaps,
   storedAnswers : {None, Some(StringifyAnswers(("q1" :> 1) @@ ("q2" :> 0)))},
   questions : {<< >>, BankQuestions},
   storedQuestions : {None, Some(StringifyQuestions(BankQuestions))},
   durationMinutes : {None, Some(1)},
   timeLeft : Nullable(0..(SecondsPerMinute + 1)),
   startTime : Nullable(0..MaxNow),
   t : 0..MaxNow]

\* localStorage as the inputs describe it
ComputeStore(in) ==
  [EmptyStore EXCEPT !.quiz_answers = in.storedAnswers,
                     !.quiz_questions = in.storedQuestions,
                     !.quiz_time_left = StoredNumber(in.timeLeft),
                     !.quiz_start_time = StoredNumber(in.startTime)]

\* the component state as the inputs describe it
ComputeState(in) ==
  [InitialState(EmptyStore) EXCEPT !.answers = in.answers,
                                   !.questions = in.questions,
                                   !.durationMinutes = in.durationMinutes,
                                   !.participantName = "ann",
                                   !.started = TRUE]

\* the columns that both pages write
Columns(page, rec) ==
  [page |-> page, answers |-> rec.answers, score |-> rec.score,
   total_questions |-> rec.total_questions,
   time_taken_seconds |-> rec.time_taken_seconds]

InitCompute ==
  /\ cIn \in {Some(in) : in \in ComputeInputs}
  /\ cOut = None
  /\ now = 0
  /\ quiz = QuizRow(TRUE, TRUE, 0, None, FALSE, 3)
  /\ attempts = << >>
  /\ ls = EmptyStore
  /\ st = InitialState(EmptyStore)
  /\ loadPc = "done"
  /\ checks = << >>
  /\ inserts = << >>
  /\ timeouts = << >>
  /\ listener = None
  /\ sessionRows = 0
  /\ completed = 0
  /\ shownBefore = None
  /\ leftObserved = None

\* SharedQuiz.handleSubmit computes its row
SharedSubmit ==
  /\ cOut = None
  /\ LET in == Val(cIn)
         s == ComputeState(in)
     IN  cOut' = Some(Columns("shared",
                   SubmitRecord(in.auto, Closure(s), s, ComputeStore(in), in.t)))
  /\ UNCHANGED <<cIn, sessionVars>>

\* QuizAttempt.handleSubmit computes its row
CreatorSubmit ==
  /\ cOut = None
  /\ LET in == Val(cIn)
     IN  cOut' = Some(Columns("creator",
                   CreatorRecord(in.questions, in.answers, in.durationMinutes,
                                 in.timeLeft, StoredNumber(in.startTime),
                                 in.t)))
  /\ UNCHANGED <<cIn, sessionVars>>

NextCompute == SharedSubmit \/ CreatorSubmit

SpecCompute == InitCompute /\ [][NextCompute]_vars

(***************************************************************************)
(* checkAttempts on its own: one run from a chosen state of the page and a *)
(* chosen answer of the count query.                                       *)
(***************************************************************************)
CheckInputs ==
  [count : Nullable(0..MaxRecords),
   maxRetries : 0..MaxRecords,
   attemptCount : 0..MaxRecords,
   blocked : BOOLEAN]

\* the component state as the inputs describe it
CheckState(in) ==
  [InitialState(EmptyStore) EXCEPT !.maxRetries = in.maxRetries,
                                   !.attemptCount = in.attemptCount,
                                   !.blocked = in.blocked,
                                   !.participantName = "ann",
                                   !.quizId = "quiz"]

InitCheck ==
  /\ cIn \in {Some(in) : in \in CheckInputs}
  /\ cOut = None
  /\ now = 0
  /\ quiz = QuizRow(TRUE, TRUE, 0, None, FALSE, 3)
  /\ attempts = << >>
  /\ ls = EmptyStore
  /\ st = InitialState(EmptyStore)
  /\ loadPc = "done"
  /\ checks = << >>
  /\ inserts = << >>
  /\ timeouts = << >>
  /\ listener = None
  /\ sessionRows = 0
  /\ completed = 0
  /\ shownBefore = None
  /\ leftObserved = None

\* checkAttempts() runs: it returns at once when maxRetries === 0
CheckAttemptsRun ==
  /\ cOut = None
  /\ LET in == Val(cIn)
         s == CheckState(in)
         after == IF in.maxRetries = 0 THEN s
                  ELSE CheckedState(s, [count |-> in.count, max |-> in.maxRetries])
     IN  cOut' = Some([attemptCount |-> after.attemptCount,
                       blocked |-> after.blocked])
  /\ UNCHANGED <<cIn, sessionVars>>

NextCheck == CheckAttemptsRun

SpecCheck == InitCheck /\ [][NextCheck]_vars

(***************************************************************************)
(* Properties of a session (checked under Spec).                           *)
(***************************************************************************)
\* max_retries as the description of the engine reads it: 0 is one attempt
EffectiveLimit(max) == IF max = 0 THEN 1 ELSE max

\* a step that sends an insert which the remote store will accept
SendsInsert ==
  /\ Len(inserts') > Len(inserts)
  /\ inserts'[Len(inserts')].valid

\* a step in which handleSubmit is invoked
SubmitInvoked ==
  \/ ManualSubmit
  \/ \E i \in 1..Len(timeouts) : TimeoutFire(i)
  \/ (Hidden /\ StoredTabSwitches(ls') >= st.tabWarnings)

\* C1: at most one row is stored per session (from the page load, Start or
\* Retry on), whatever the interleaving of manual submit, timer expiry and
\* tab-switch threshold.
OneRecordPerSession == sessionRows <= 1

\* C2: once submitted is true, a further invocation of handleSubmit (the
\* 200 ms timer callback included) sends no insert and changes no
\* localStorage key.
SubmittedIsFinal ==
  [][(st.submitted /\ SubmitInvoked) => (inserts' = inserts /\ ls' = ls)]_vars

\* C3: RetryExhausted is permanent.  Once the rows stored for the identity
\* have reached the limit of a quiz with retries and a count query has told
\* the page so (blocked is set), no step of the page sends a further insert
\* for that identity.
ExhaustedIsPermanent ==
  [][(/\ quiz.max_retries > 0
      /\ CountFor(st.participantName) >= EffectiveLimit(quiz.max_retries)
      /\ st.blocked)
     => ~SendsInsert]_vars

\* C4: when checkAttempts completes, blocked = (count >= effective limit),
\* the effective limit being 1 for max_retries = 0: a query that returns
\* sets blocked from its count, and the call for a loaded quiz with
\* max_retries = 0 blocks an identity that has a row.
BlockedAfterCheck ==
  [][/\ \A i \in 1..Len(checks) :
          (EffectCheckReturn(i) \/ StartCheckReturn(i) \/ SubmitCheckReturn(i))
          => st'.blocked = (Val(checks[i].count) >= EffectiveLimit(checks[i].max))
     /\ (ClickStart /\ st.quizId # "" /\ st.maxRetries = 0)
          => st'.blocked =
               (CountFor(st.participantName) >= EffectiveLimit(st.maxRetries))
    ]_vars

\* C5: with max_retries = 0, blocked is true after a completed submission
\* whose row was stored, and no later submission of that identity is sent.
OneShotBlocksAfterSubmission ==
  [][/\ quiz.max_retries = 0
     /\ st.quizId # ""
     => /\ \A i \in 1..Len(inserts) :
             (InsertAck(i) /\ inserts[i].phase = "stored") => st'.blocked
        /\ CountFor(st.participantName) >= 1 => ~SendsInsert]_vars

\* C6: for max_retries = m > 0, after the k-th completed submission of the
\* identity retriesLeft = max(m - k, 0) and blocked iff k >= m; checked at the
\* completions at which k is also the number of rows stored.
RetriesLeftAfterSubmission ==
  [][\A i \in 1..Len(checks) :
       (/\ SubmitCheckReturn(i)
        /\ quiz.max_retries > 0
        /\ completed' = Len(attempts'))
       => /\ retriesLeft(st') = Max(quiz.max_retries - completed', 0)
          /\ st'.blocked = (completed' >= quiz.max_retries)]_vars

\* C7: Start makes the session active only if its eligibility check reports
\* not blocked: the render in which started turns true, for a loaded quiz
\* with retries, has blocked false.
StartOnlyIfNotBlocked ==
  [][(~st.started /\ st'.started /\ st.quizId # "" /\ st.maxRetries > 0)
     => ~st'.blocked]_vars

\* C10: the remaining time restored on a reload of a started timed session is
\* max(deadline - now, 0), the deadline being the session start plus the
\* duration.
RestoredTimeIsDeadlineBased ==
  [][(/\ LoadQuiz
      /\ quiz.found /\ quiz.sharing_enabled
      /\ IsSome(quiz.duration_minutes)
      /\ st.started
      /\ Truthy(ls.quiz_start_time)
      /\ Truthy(ls.quiz_time_left))
     => st'.timeLeft =
          Some(Max(ParseNumber(Val(ls.quiz_start_time))
                     + Val(quiz.duration_minutes) * SecondsPerMinute - now,
                   0))]_vars

\* C11: no time is gained by a reload: when the load after a reload has set
\* the timer, the remaining time shown is not greater than the remaining
\* time the page showed when it was reloaded (shared page and creator page).
NoTimeGainedByReload ==
  [][/\ (~CreatorPage /\ LoadQuiz /\ IsSome(shownBefore) /\ TimeShown(st'))
          => Val(st'.timeLeft) <= Val(shownBefore)
     /\ (CreatorPage /\ CreatorLoad /\ IsSome(shownBefore) /\ CreatorTimeShown(st'))
          => Val(st'.timeLeft) <= Val(shownBefore)]_vars

\* a step in which a retry is under way: Retry Quiz was clicked, or the
\* count query it awaits returns and the page reloads
RetryStep == ClickRetry \/ \E i \in 1..Len(checks) : RetryCheckReturn(i)

\* a step in which a handleSubmit run reaches its last statement
CompletionStep ==
  \/ \E i \in 1..Len(inserts) : InsertAck(i) /\ inserts[i].max = 0
  \/ \E i \in 1..Len(checks) : SubmitCheckReturn(i)

\* no handleRetry is waiting for its count query
NoRetryPending == \A i \in 1..Len(checks) : checks[i].cont # "retry"

\* C12: when the remaining time of a started, unsubmitted session reaches 0
\* one handleSubmit(true) is scheduled and no further tick; no second one is
\* scheduled while the remaining time stays at 0; with no answers given its
\* record has score 0 and time_taken_seconds = duration * 60.
TimerExpiryAutoSubmitsOnce ==
  [][/\ (Tick /\ st'.timeLeft = Some(0)) => Len(timeouts') = Len(timeouts) + 1
     /\ (IsSome(st.timeLeft) /\ Val(st.timeLeft) <= 0 /\ st'.timeLeft = st.timeLeft)
          => Len(timeouts') <= Len(timeouts)
     /\ (IsSome(st.timeLeft) /\ Val(st.timeLeft) <= 0) => ~Tick
     /\ \A i \in 1..Len(timeouts) :
          (TimeoutFire(i) /\ Len(inserts') > Len(inserts)
             /\ DOMAIN StoredAnswers(ls) = {})
          => /\ inserts'[Len(inserts')].rec.score = 0
             /\ inserts'[Len(inserts')].rec.time_taken_seconds =
                  Val(st.durationMinutes) * SecondsPerMinute]_vars

\* the session is Active: started, not submitted, not blocked
Active == st.started /\ ~st.submitted /\ ~st.blocked /\ ~st.notFound

\* C13: with prevent_tab_switch set and tab_switch_warnings = N, the monitor
\* is installed in an Active session, each transition to hidden adds exactly 1
\* to the persisted counter, and the transition that brings it to N sends an
\* insert whose row has tab_switch_count = N.
IntegrityThreshold ==
  [][(Active /\ st.preventTabSwitch) =>
       /\ IsSome(listener)
       /\ Hidden =>
            /\ StoredTabSwitches(ls') = StoredTabSwitches(ls) + 1
            /\ StoredTabSwitches(ls') = st.tabWarnings =>
                 /\ Len(inserts') = Len(inserts) + 1
                 /\ inserts'[Len(inserts')].rec.tab_switch_count
                      = st.tabWarnings]_vars

\* a reachable state in which two transitions to hidden have brought the
\* counter to the threshold 2 and the row of the auto-submit is under way
IntegrityWitness ==
  /\ st.tabWarnings = 2
  /\ st.submitted
  /\ \E i \in 1..Len(inserts) : inserts[i].rec.tab_switch_count = 2

\* C14: the persisted tab-switch count decreases (is reset) only by an
\* explicit retry.
TabSwitchCountResetOnlyByRetry ==
  [][StoredTabSwitches(ls') < StoredTabSwitches(ls) => RetryStep]_vars

\* C15: selectAnswer(q, o) is a no-op when submitted; otherwise afterwards
\* answers[q] = o, every other entry is unchanged, the persisted map equals
\* the map in memory, and reselecting the same option changes nothing (the
\* shared page and the creator page that persists its answers).
SelectAnswerLedger ==
  [][\A q \in {"q1", "q2"}, o \in OptionIndexes :
       LET written ==
             /\ DOMAIN st'.answers = DOMAIN st.answers \cup {q}
             /\ st'.answers[q] = o
             /\ \A id \in DOMAIN st.answers \ {q} :
                  st'.answers[id] = st.answers[id]
             /\ (q \in DOMAIN st.answers /\ st.answers[q] = o)
                  => st'.answers = st.answers
       IN  /\ (~CreatorPage /\ SelectAnswer(q, o)) =>
                IF st.submitted THEN st' = st /\ ls' = ls
                ELSE written /\ StoredAnswers(ls') = st'.answers
           /\ (CreatorPage /\ st.persists /\ CreatorSelectAnswer(q, o)) =>
                IF st.submitted THEN st' = st /\ ls' = ls
                ELSE written /\ CreatorStoredAnswers(ls') = st'.answers]_vars

\* a reachable state of the shared page in which both questions of the quiz
\* were answered, with different options, and the map is persisted
LedgerWitness ==
  /\ ~CreatorPage
  /\ st.started /\ ~st.submitted
  /\ DOMAIN st.answers = {"q1", "q2"}
  /\ st.answers["q1"] # st.answers["q2"]
  /\ StoredAnswers(ls) = st.answers

AllKeysRemovedOnCompletion ==
  [][CompletionStep => ls' = EmptyStore]_vars

\* C18: a handleSubmit invoked while blocked is true sends no insert, changes
\* no localStorage key (beyond the monitor's own count of the transition) and
\* leaves submitted, score and answers as they are.
BlockedSubmitHasNoEffect ==
  [][(st.blocked /\ SubmitInvoked) =>
       /\ inserts' = inserts
       /\ ls' = (IF Hidden THEN incrementTabSwitch(ls) ELSE ls)
       /\ st'.submitted = st.submitted
       /\ st'.score = st.score
       /\ st'.answers = st.answers]_vars

\* C19: after a completed submission the session leaves Submitted, for a
\* state in which answers can be selected and a submission made, only by a
\* Retry Quiz click made while retries remain; not by a reload, a tick or a
\* visibility change.
SubmittedIsSticky ==
  [][(/\ st.submitted
      /\ inserts = << >>
      /\ \A i \in 1..Len(checks) : checks[i].cont # "submit"
      /\ st'.started /\ ~st'.notFound /\ ~st'.submitted)
     => (ClickRetry /\ retriesLeft(st) > 0)]_vars

\* the share token matches no quiz, or the quiz is not shared
NotAvailable == ~quiz.found \/ ~quiz.sharing_enabled

\* C20: for a quiz that is not available the session is never Active, no
\* timer and no monitor acts, and no insert is sent or stored.
NotAvailableCreatesNoSession ==
  NotAvailable =>
    /\ ~QuizShown
    /\ timeouts = << >>
    /\ ~IntervalRunning(st)
    /\ listener = None
    /\ inserts = << >>
    /\ sessionRows = 0

\* C21: a handleRetry invoked when the rows stored for the name have reached
\* max_retries, or when the page's attemptCount has, is rejected: it sets
\* blocked and leaves answers, submitted, score, the timer and every
\* localStorage key as they are, sends no query and does not reload.
RetryRejectedAtLimit ==
  [][(/\ ClickRetry
      /\ \/ CountFor(st.participantName) >= st.maxRetries
         \/ st.attemptCount >= st.maxRetries)
     => /\ st'.blocked
        /\ st'.answers = st.answers
        /\ st'.submitted = st.submitted
        /\ st'.score = st.score
        /\ st'.timeLeft = st.timeLeft
        /\ ls' = ls
        /\ checks' = checks]_vars

\* questions are loaded and not all of them are answered
PartlyAnswered ==
  Len(st.questions) > 0 /\ Cardinality(DOMAIN st.answers) < Len(st.questions)

\* C22: a manual submission with unanswered questions is not a hard block:
\* on the shared page the Submit button can still send the record of the
\* partial answers; on the creator page it opens the confirmation, and the
\* confirmation sends the record of the partial answers.
PartialSubmitCanProceed ==
  /\ (/\ ~CreatorPage
      /\ QuizShown /\ ~st.submitted /\ ~st.blocked /\ PartlyAnswered
      /\ Max(Len(attempts), completed) + Len(inserts) < MaxRecords)
     => ENABLED (/\ ManualSubmit
                 /\ Len(inserts') = Len(inserts) + 1
                 /\ inserts'[Len(inserts')].rec.answers = st.answers)
  /\ (/\ CreatorPage
      /\ st.persists /\ ~st.loading /\ ~st.submitted /\ PartlyAnswered
      /\ Len(attempts) + Len(inserts) < MaxRecords)
     => /\ ENABLED (CreatorSubmitClick /\ st'.openSubmitDialog
                    /\ inserts' = inserts)
        /\ st.openSubmitDialog =>
             ENABLED (/\ CreatorConfirmSubmit
                      /\ Len(inserts') = Len(inserts) + 1
                      /\ inserts'[Len(inserts')].rec.answers = st.answers)

\* C23: when the count query fails (no count in its answer) checkAttempts
\* leaves attemptCount = 0 and blocked = false for every max_retries > 0,
\* whatever blocked and attemptCount were before.
FailedCountIsZeroAttempts ==
  (IsSome(cOut) /\ Val(cIn).count = None /\ Val(cIn).maxRetries > 0)
    => (Val(cOut).attemptCount = 0 /\ ~Val(cOut).blocked)

\* checkAttempts has run on a failed query in a page that was blocked
FailedCountWitness ==
  /\ IsSome(cOut)
  /\ Val(cIn).count = None /\ Val(cIn).maxRetries > 0
  /\ Val(cIn).blocked /\ Val(cIn).attemptCount >= Val(cIn).maxRetries
  /\ ~Val(cOut).blocked

\* C24: when the insert of a submission fails, no row is written for it, the
\* handleSubmit that awaits it sends no second insert, the page stays
\* submitted with the score it computed, and the stored progress is cleared.
FailedInsertStillCompletes ==
  [][\A i \in 1..Len(inserts) :
       /\ InsertFail(i) => (attempts' = attempts /\ sessionRows' = sessionRows)
       /\ (InsertAck(i) /\ inserts[i].phase = "failed") =>
            /\ st.submitted /\ st'.submitted
            /\ st'.score = st.score
            /\ st.score = inserts[i].rec.score
            /\ inserts' = RemoveAt(inserts, i)
            /\ attempts' = attempts
            /\ ls'.quiz_answers = None /\ ls'.quiz_start_time = None
            /\ ls'.quiz_time_left = None /\ ls'.quiz_questions = None
            /\ ls'.quiz_tab_switches = None]_vars

\* a handleSubmit has completed without a stored row: the page shows the
\* result of a submission with a correct answer and the progress is cleared
FailedInsertWitness ==
  /\ completed = Len(attempts) + 1
  /\ sessionRows = 0
  /\ st.submitted /\ st.score = 1
  /\ inserts = << >>
  /\ ls.quiz_answers = None /\ ls.quiz_questions = None

\* C25: for the one name and an unchanged max_retries, the retriesLeft the
\* page shows after a completed submission is not greater than the one it
\* showed after the completed submission before it.
RetriesLeftNeverGrows ==
  [][\A i \in 1..Len(checks) :
       (SubmitCheckReturn(i) /\ IsSome(leftObserved))
         => retriesLeft(st') <= Val(leftObserved)]_vars

\* C26: submitted is set only as the last step of handleSubmit: it is never
\* true while an insert of the page is under way, or while the count query
\* that handleSubmit awaits before it clears the stored progress is.
SubmittedOnlyAfterCompletion ==
  st.submitted =>
    /\ inserts = << >>
    /\ \A i \in 1..Len(checks) : checks[i].cont # "submit"

\* the answers, time-left, tab-switch, start-time and questions keys are absent
ProgressKeysAbsent(l) ==
  /\ l.quiz_answers = None /\ l.quiz_time_left = None
  /\ l.quiz_tab_switches = None /\ l.quiz_start_time = None
  /\ l.quiz_questions = None

\* C27: when a handleSubmit completes the five progress keys are absent, and
\* while the page stays submitted no tick, persist effect, visibility event
\* or late callback writes one of them again: no step does, other than a
\* reload, a retry, and the write of the question snapshot by a load() that
\* was still under way.
ClearedKeysStayAbsent ==
  [][/\ CompletionStep => ProgressKeysAbsent(ls')
     /\ (/\ ProgressKeysAbsent(ls) /\ st.submitted
         /\ ~Reload /\ ~RetryStep /\ ~LoadQuestions)
          => ProgressKeysAbsent(ls')]_vars

\* C28: the monitor acts only with prevent_tab_switch set, in a started and
\* unsubmitted session: in every other state no listener is installed, so a
\* transition to hidden changes nothing, and every step of the handler
\* (count, threshold submission) starts in such a state.
MonitorActsOnlyWhenActive ==
  [][/\ (~st.preventTabSwitch \/ ~st.started \/ st.submitted)
          => listener = None
     /\ Hidden => (st.preventTabSwitch /\ st.started /\ ~st.submitted)]_vars

\* the monitor has submitted the session at its threshold and is gone: the
\* session is submitted, the count is stored and no listener is installed
MonitorWitness ==
  /\ st.preventTabSwitch /\ st.started /\ st.submitted
  /\ StoredTabSwitches(ls) = st.tabWarnings
  /\ listener = None

\* C29: a successful handleRetry leaves a clean slate: the page it reloads
\* into is unsubmitted with no answers, score 0 and the same participant
\* name, the stored tab-switch count is 0 and, for a timed quiz, the stored
\* remaining time is the full duration * 60.
CleanSlateAfterRetry ==
  [][\A i \in 1..Len(checks) :
       RetryCheckReturn(i) =>
         /\ ~st'.submitted
         /\ st'.answers = ParseAnswers(<< >>)
         /\ StoredAnswers(ls') = ParseAnswers(<< >>)
         /\ st'.score = 0
         /\ st'.participantName = st.participantName
         /\ StoredTabSwitches(ls') = 0
         /\ (IsSome(st.durationMinutes) /\ Val(st.durationMinutes) # 0)
              => /\ Truthy(ls'.quiz_time_left)
                 /\ ParseNumber(Val(ls'.quiz_time_left))
                      = Val(st.durationMinutes) * SecondsPerMinute]_vars

\* C31: the row sent by an auto-triggered handleSubmit (timer expiry or
\* tab-switch threshold) carries every selection made before the trigger:
\* its answers are the answers of the page at that moment, whatever render
\* the callback was created in.
AutoSubmitCarriesSelections ==
  [][((Hidden \/ \E i \in 1..Len(timeouts) : TimeoutFire(i))
        /\ Len(inserts') = Len(inserts) + 1)
       => inserts'[Len(inserts')].rec.answers = st.answers]_vars

\* the ids of the questions of the quiz that the page was opened for
QuizQuestionIds == {QuizQuestions[k].id : k \in 1..Len(QuizQuestions)}

\* C32: in every state of a session the keys of the answers map are ids of
\* questions of the quiz of the page, also after a reload and after the page
\* was opened for another share token.
AnswerKeysAreQuestionIds == DOMAIN st.answers \subseteq QuizQuestionIds

\* C33: the page opened for another quiz inherits nothing from the session
\* that localStorage holds: it shows the gate, has no answers, a stored
\* tab-switch count of 0, and its load() sets the full duration of that quiz
\* as the remaining time.
OtherQuizStartsClean ==
  [][\A row \in OtherQuizRows :
       OpenShareLink(row) =>
         /\ ~st'.started
         /\ st'.answers = ParseAnswers(<< >>)
         /\ StoredTabSwitches(ls') = 0
         /\ LoadedState(st, ls)'.timeLeft
              = Some(Val(row.duration_minutes) * SecondsPerMinute)]_vars

\* the remaining time of state s, or what load() makes of localStorage l
\* while the page has none yet
TimeLeftOrRestored(s, l) ==
  IF IsSome(s.timeLeft) THEN s.timeLeft ELSE LoadedState(s, l).timeLeft

\* C34: in a timed session 0 <= timeLeft <= duration * 60; a tick takes
\* exactly 1 from it while the session is started and unsubmitted; it does
\* not change before the start or after the submission; and it grows only
\* by a retry (a page load counts with the time it restores).
TimeLeftLedger ==
  [][/\ (IsSome(st'.timeLeft) /\ IsSome(st'.durationMinutes))
          => /\ 0 <= Val(st'.timeLeft)
             /\ Val(st'.timeLeft) <= Val(st'.durationMinutes) * SecondsPerMinute
     /\ Tick => /\ st.started /\ ~st.submitted
                /\ Val(st'.timeLeft) = Val(st.timeLeft) - 1
     /\ (IsSome(st.timeLeft) /\ IsSome(st'.timeLeft)
           /\ (~st.started \/ st.submitted))
          => st'.timeLeft = st.timeLeft
     /\ (IsSome(st.timeLeft) /\ ~RetryStep)
          => Val(TimeLeftOrRestored(st, ls)') <= Val(st.timeLeft)]_vars

\* C35: on the creator's attempt page of a timed quiz, the step that takes
\* the countdown of the unsubmitted page to 0 invokes handleSubmit(true)
\* once: the page is submitted and one record is sent, with no user action.
CreatorExpiryAutoSubmits ==
  [][(/\ CreatorPage /\ ~st.submitted
      /\ IsSome(st'.timeLeft) /\ Val(st'.timeLeft) = 0
      /\ st'.timeLeft # st.timeLeft)
       => /\ st'.submitted
          /\ Len(inserts') = Len(inserts) + 1]_vars

(***************************************************************************)
(* Properties of the computations (checked under SpecCompute).             *)
(***************************************************************************)
\* the question list that the computed row was scored over
ScoredQuestions ==
  IF Val(cOut).page = "shared"
  THEN LatestQuestions(Val(cIn).questions, ComputeStore(Val(cIn)))
  ELSE Val(cIn).questions

\* the questions of qs that ans answers with their correct option index
CorrectlyAnswered(qs, ans) ==
  {i \in 1..Len(qs) : /\ qs[i].id \in DOMAIN ans
                      /\ ans[qs[i].id] = qs[i].correct_option_index}

\* the questions of qs that ans answers with an option index
AnsweredInRange(qs, ans) ==
  {i \in 1..Len(qs) : qs[i].id \in DOMAIN ans /\ ans[qs[i].id] \in OptionIndexes}

\* C8: the score is the number of questions of the resolved list whose
\* submitted answer equals the correct option index; a question without an
\* answer, or with one that is no option index, never counts.
ScoreCountsCorrectAnswers ==
  IsSome(cOut) =>
    LET qs == ScoredQuestions
        ans == Val(cOut).answers
    IN  /\ Val(cOut).score = Cardinality(CorrectlyAnswered(qs, ans))
        /\ Val(cOut).score <= Cardinality(AnsweredInRange(qs, ans))

\* a row scored 1 of 2 whose answers hold a value that is no option index
ScoreWitness ==
  /\ IsSome(cOut)
  /\ Val(cOut).score = 1
  /\ Val(cOut).total_questions = 2
  /\ \E id \in DOMAIN Val(cOut).answers :
       Val(cOut).answers[id] \notin OptionIndexes

\* C9: the row of either handleSubmit has time_taken_seconds >= 1.
TimeTakenAtLeastOne ==
  IsSome(cOut) => Val(cOut).time_taken_seconds >= 1

\* a row of the shared page whose computed time was below one second
TimeTakenWitness ==
  /\ IsSome(cOut)
  /\ Val(cOut).page = "shared"
  /\ SharedRawTime(Val(cIn).durationMinutes, ComputeStore(Val(cIn)),
                   Val(cIn).t) < 1
  /\ Val(cOut).time_taken_seconds = 1

\* C30: on both pages the row of a timed quiz records duration * 60 minus
\* the remaining time, at least 1; the wall-clock difference between the
\* submission and the stored start time is recorded only when the quiz has
\* no duration.
TimeTakenFromTimer ==
  IsSome(cOut) =>
    LET in == Val(cIn)
        taken == Val(cOut).time_taken_seconds
    IN  /\ (IsSome(in.durationMinutes) /\ IsSome(in.timeLeft))
             => taken = Max(Val(in.durationMinutes) * SecondsPerMinute
                              - Val(in.timeLeft), 1)
        /\ (~IsSome(in.durationMinutes) /\ IsSome(in.startTime))
             => taken = Max(in.t - Val(in.startTime), 1)

====
